---- MODULE Spec2Model ----
(***************************************************************************)
(* Model of the 6502 core in src/src/cpu.rs: the CPU struct, load, reset,  *)
(* run (one loop iteration per step), load_and_run, and the private        *)
(* helpers mem_read / mem_write / update_zero_and_negative.                *)
(*                                                                         *)
(* Memory encoding.  The field  memory : [u8 ; 0xFFFF]  is an array of     *)
(* MemLen = 65535 cells, all 0 after CPU::new().  It is represented by the *)
(* finite function of its NON-ZERO cells: an address outside DOMAIN memory *)
(* holds 0, and storing 0 removes the address from the domain, so two      *)
(* memories are equal iff their representations are equal.  Rust's array   *)
(* index check (index < 0xFFFF, else panic) is the predicate InBounds.     *)
(* A byte vector (the Vec<u8> given to load) is encoded the same way: its  *)
(* length and its non-zero bytes by 0-based offset.                        *)
(***************************************************************************)
EXTENDS Integers, Sequences, FiniteSets, TLC

VARIABLES register_a, register_x, register_y, status, program_counter,
          memory,     \* the non-zero cells of CPU::memory
          mode,       \* "idle", "running" (inside run), "halted" (run returned), "fatal" (panicked)
          opscode,    \* the local  opscode  of run(): the byte last fetched as an opcode
          call,       \* the public call (or helper call) made last, and whether it panicked
          loads,      \* number of load / load_and_run calls made
          runs        \* number of run / load_and_run calls made

regs == <<register_a, register_x, register_y, status, program_counter>>
vars == <<register_a, register_x, register_y, status, program_counter,
          memory, mode, opscode, call, loads, runs>>

(***************************************************************************)
(* Program constants                                                       *)
(***************************************************************************)
MemLen      == 65535     \* memory : [u8 ; 0xFFFF]
ProgramBase == 32768     \* 0x8000
ResetVector == 65532     \* 0xFFFC
U16Max      == 65535     \* largest u16
ZeroFlag     == 2        \* 0b0000_0010
NegativeFlag == 128      \* 0b1000_0000
OP_LDA == 169            \* 0xA9
OP_TAX == 170            \* 0xAA
OP_INX == 232            \* 0xE8
OP_BRK == 0              \* 0x00

(***************************************************************************)
(* Bounds of the model                                                     *)
(***************************************************************************)
MaxLoads == 2            \* load / load_and_run calls in one behaviour
MaxRuns  == 2            \* run / load_and_run calls in one behaviour
MaxResets == 2           \* reset calls in direct succession

Byte == 0..255
NoOpcode == 255 + 1      \* run() has not fetched an opcode yet

(***************************************************************************)
(* u8 bit operations                                                       *)
(***************************************************************************)
Bit(v, k) == (v \div (2^k)) % 2

BitAnd(x, y) ==
  LET b(k) == Bit(x, k) * Bit(y, k)
  IN  b(0) + 2*b(1) + 4*b(2) + 8*b(3) + 16*b(4) + 32*b(5) + 64*b(6) + 128*b(7)

BitOr(x, y) ==
  LET b(k) == IF Bit(x, k) = 1 \/ Bit(y, k) = 1 THEN 1 ELSE 0
  IN  b(0) + 2*b(1) + 4*b(2) + 8*b(3) + 16*b(4) + 32*b(5) + 64*b(6) + 128*b(7)

\* u8 addition that stops at 255 instead of wrapping
saturating_add_u8(x, y) == IF x + y > 255 THEN 255 ELSE x + y

wrapping_add_u8(x, y) == (x + y) % 256

(***************************************************************************)
(* Memory                                                                  *)
(***************************************************************************)
EmptyMemory == [a \in {} |-> 0]

\* the index check of  self.memory[address as usize]
\* the index check of a memory of 0x10000 cells
InBounds_64k(address) == address <= U16Max

InBounds(address) == address < MemLen

\* mem_read, for an address that passes the index check
mem_read(m, address) == IF address \in DOMAIN m THEN m[address] ELSE 0

\* mem_write, for an address that passes the index check
mem_write(m, address, data) ==
  [a \in IF data = 0 THEN DOMAIN m \ {address} ELSE DOMAIN m \cup {address}
     |-> IF a = address THEN data ELSE m[a]]

\* mem_read_u16 completes iff both byte reads pass the index check
mem_read_u16_ok(pos) == InBounds(pos) /\ InBounds(pos + 1)

mem_read_u16(m, pos) ==
  LET lo == mem_read(m, pos)
      hi == mem_read(m, pos + 1)
  IN  hi * 256 + lo          \* (hi << 8) | lo

mem_write_u16_ok(pos) == InBounds(pos) /\ InBounds(pos + 1)

mem_write_u16(m, pos, data) ==
  LET hi == data \div 256    \* (data >> 8) as u8
      lo == data % 256       \* (data & 0xff) as u8
  IN  mem_write(mem_write(m, pos, lo), pos + 1, hi)

\* the Vec<u8> holding the bytes of the sequence s
Vec(s) ==
  [len   |-> Len(s),
   bytes |-> [i \in {j \in 0..(Len(s) - 1) : s[j + 1] # 0} |-> s[i + 1]]]

\* program[i]
at(program, i) == IF i \in DOMAIN program.bytes THEN program.bytes[i] ELSE 0

\* a copy that also clears every cell outside the copied range
copy_from_slice_zeroing(m, base, program) ==
  [a \in {base + i : i \in DOMAIN program.bytes} |-> at(program, a - base)]

\* self.memory[base .. base + len].copy_from_slice(&program[..])
copy_from_slice(m, base, program) ==
  LET kept == {a \in DOMAIN m : a < base \/ a >= base + program.len}
      set  == {base + i : i \in DOMAIN program.bytes}
  IN  [a \in kept \cup set |->
         IF a \in set THEN at(program, a - base) ELSE m[a]]

\* the range check of the slice  memory[0x8000 .. 0x8000 + program.len()]
load_ok(program) == ProgramBase + program.len <= MemLen

\* a load that writes the reset vector before the slice is range-checked
load_vector_first(m, program) ==
  IF load_ok(program)
  THEN mem_write_u16(copy_from_slice(m, ProgramBase, program),
                     ResetVector, ProgramBase)
  ELSE mem_write_u16(m, ResetVector, ProgramBase)

\* memory after load(program); on a failed range check nothing was written
load(m, program) ==
  IF load_ok(program)
  THEN mem_write_u16(copy_from_slice(m, ProgramBase, program),
                     ResetVector, ProgramBase)
  ELSE m

(***************************************************************************)
(* Flags                                                                   *)
(***************************************************************************)
\* a flag update that rebuilds the whole status byte from the result
update_flags_overwriting(s, result) ==
  (IF result = 0 THEN ZeroFlag ELSE 0) + (IF result >= 128 THEN NegativeFlag ELSE 0)

\* the update that sets flags and never clears one
update_flags_never_clearing(s, result) ==
  LET s1 == IF result = 0 THEN BitOr(s, ZeroFlag) ELSE s
  IN  IF BitAnd(result, NegativeFlag) # 0 THEN BitOr(s1, NegativeFlag) ELSE s1

update_zero_and_negative(s, result) ==
  LET s1 == IF result = 0 THEN BitOr(s, ZeroFlag) ELSE BitAnd(s, 253)
  IN  IF BitAnd(result, NegativeFlag) # 0
      THEN BitOr(s1, NegativeFlag)
      ELSE BitAnd(s1, 127)

(***************************************************************************)
(* Inputs                                                                  *)
(***************************************************************************)
\* a program of n >= 3 bytes: zeros (BRK) ending in INX, INX, LDA
Fill(n) ==
  [len   |-> n,
   bytes |-> (n - 3 :> OP_INX) @@ (n - 2 :> OP_INX) @@ (n - 1 :> OP_LDA)]

Programs ==
  { Vec(<<169, 0, 0>>),                    \* tests/cpu.rs:17
    Vec(<<169, 127, 170, 232, 0>>),        \* tests/cpu.rs:34
    Vec(<<169, 255, 170, 232, 232, 0>>),   \* tests/cpu.rs:50
    Vec(<<169, 5, 0>>),                    \* tests/cpu.rs:8
    Vec(<<>>),
    Vec(<<170, 232, 0>>),                  \* TAX, INX on the caller's registers
    Vec(<<169, 128, 2>>),                  \* LDA #$80, then an opcode run() does not know
    Fill(MemLen - ProgramBase),            \* the longest program the slice accepts
    Fill(MemLen - ProgramBase + 1),        \* 0x8000 bytes: ends at address 0xFFFF
    Fill(MemLen - ProgramBase + 2) }       \* 0x8001 bytes: one byte too many for 64 KiB

\* values a caller assigns to the public fields before a call
Setups ==
  { [a |-> 10,  x |-> 127, y |-> 0,   s |-> 0,   pc |-> 0],       \* tests/cpu.rs:24, 33
    [a |-> 255, x |-> 255, y |-> 85,  s |-> 255, pc |-> 32769],
    [a |-> 128, x |-> 127, y |-> 1,   s |-> 125, pc |-> 32768],
    [a |-> 0,   x |-> 254, y |-> 255, s |-> 65,  pc |-> 65534],
    [a |-> 127, x |-> 0,   y |-> 170, s |-> 130, pc |-> 65535] }

Call(fn, arg, data, result, panicked) ==
  [fn |-> fn, arg |-> arg, data |-> data, result |-> result, panicked |-> panicked]

\* the data of a call that takes no program
NoProgram == Vec(<<>>)

(***************************************************************************)
(* CPU::new                                                                *)
(***************************************************************************)
Init ==
  /\ register_a = 0
  /\ register_x = 0
  /\ register_y = 0
  /\ status = 0
  /\ program_counter = 0
  /\ memory = EmptyMemory
  /\ mode = "idle"
  /\ opscode = NoOpcode
  /\ call = Call("new", 0, NoProgram, 0, FALSE)
  /\ loads = 0
  /\ runs = 0

\* the caller may call a public method: no call is running and none panicked
Ready == mode \in {"idle", "halted"}

\* the caller assigns the pub fields of CPU
SetRegisters(r) ==
  /\ Ready
  /\ register_a' = r.a
  /\ register_x' = r.x
  /\ register_y' = r.y
  /\ status' = r.s
  /\ program_counter' = r.pc
  /\ mode' = "idle"
  /\ opscode' = NoOpcode
  /\ call' = Call("set", 0, NoProgram, 0, FALSE)
  /\ UNCHANGED <<memory, loads, runs>>

(***************************************************************************)
(* CPU::load                                                               *)
(***************************************************************************)
Load(program) ==
  /\ Ready
  /\ loads < MaxLoads
  /\ loads' = loads + 1
  /\ memory' = load(memory, program)
  /\ mode' = IF load_ok(program) THEN "idle" ELSE "fatal"
  /\ opscode' = NoOpcode
  /\ call' = Call("load", program.len, program, 0, ~load_ok(program))
  /\ UNCHANGED <<regs, runs>>

(***************************************************************************)
(* CPU::reset                                                              *)
(***************************************************************************)
\* a reset that clears the Y register too
reset_clearing_y(m) ==
  /\ register_a' = 0
  /\ register_x' = 0
  /\ register_y' = 0
  /\ status' = 0
  /\ program_counter' = mem_read_u16(m, ResetVector)

\* a reset that reads the vector at the program counter instead of 0xFFFC
reset_vector_at_pc(m) ==
  /\ register_a' = 0
  /\ register_x' = 0
  /\ status' = 0
  /\ program_counter' = IF mem_read_u16_ok(program_counter)
                        THEN mem_read_u16(m, program_counter)
                        ELSE program_counter
  /\ UNCHANGED register_y

\* reset() on a machine whose memory is m
reset(m) ==
  /\ register_a' = 0
  /\ register_x' = 0
  /\ status' = 0
  /\ program_counter' = IF mem_read_u16_ok(ResetVector)
                        THEN mem_read_u16(m, ResetVector)
                        ELSE program_counter
  /\ UNCHANGED register_y

\* call.arg counts the reset calls made in direct succession
Reset ==
  /\ Ready
  /\ call.fn = "reset" => call.arg < MaxResets
  /\ reset(memory)
  /\ mode' = IF mem_read_u16_ok(ResetVector) THEN "idle" ELSE "fatal"
  /\ opscode' = NoOpcode
  /\ call' = Call("reset", IF call.fn = "reset" THEN call.arg + 1 ELSE 1, NoProgram, 0,
                  ~mem_read_u16_ok(ResetVector))
  /\ UNCHANGED <<memory, loads, runs>>

(***************************************************************************)
(* CPU::run                                                                *)
(***************************************************************************)
\* an lda that leaves the flags alone
lda_keeping_flags(value) ==
  /\ register_a' = value
  /\ status' = status

lda(value) ==
  /\ register_a' = value
  /\ status' = update_zero_and_negative(status, value)

\* a tax that computes the flags from X's value before the transfer
tax_flags_from_old_x ==
  /\ register_x' = register_a
  /\ status' = update_zero_and_negative(status, register_x)

tax ==
  /\ register_x' = register_a
  /\ status' = update_zero_and_negative(status, register_a)

inx ==
  /\ register_x' = wrapping_add_u8(register_x, 1)
  /\ status' = update_zero_and_negative(status, wrapping_add_u8(register_x, 1))

\* the caller enters run()
Run ==
  /\ Ready
  /\ runs < MaxRuns
  /\ runs' = runs + 1
  /\ mode' = "running"
  /\ opscode' = NoOpcode
  /\ call' = Call("run", 0, NoProgram, 0, FALSE)
  /\ UNCHANGED <<regs, memory, loads>>

\* a panic inside run(): index out of bounds in mem_read, or todo!()
Panic ==
  /\ mode' = "fatal"
  /\ call' = [call EXCEPT !.panicked = TRUE]

\* One iteration of the loop of run() with one slip in it:
\*   "brk_sets_break_flag"  BRK sets status bit 4 before it returns
\*   "unknown_is_nop"       an opcode without a match arm is skipped
\*   "lda_one_byte"         LDA does not advance past its operand
\*   "tax_writes_y"         TAX writes the Y register instead of X
StepWith(slip) ==
  /\ mode = "running"
  /\ IF ~InBounds(program_counter)
     THEN /\ Panic
          /\ UNCHANGED <<regs, opscode>>
     ELSE LET op  == mem_read(memory, program_counter)
              pc1 == program_counter + 1
          IN  /\ opscode' = op
              /\ CASE op = OP_LDA ->
                       IF ~InBounds(pc1)
                       THEN /\ program_counter' = pc1
                            /\ Panic
                            /\ UNCHANGED <<register_a, register_x, register_y, status>>
                       ELSE /\ program_counter' =
                               IF slip = "lda_one_byte" THEN pc1 ELSE pc1 + 1
                            /\ lda(mem_read(memory, pc1))
                            /\ UNCHANGED <<register_x, register_y, mode, call>>
                   [] op = OP_TAX ->
                       /\ program_counter' = pc1
                       /\ IF slip = "tax_writes_y"
                          THEN /\ register_y' = register_a
                               /\ status' = update_zero_and_negative(status, register_a)
                               /\ UNCHANGED <<register_a, register_x, mode, call>>
                          ELSE /\ tax
                               /\ UNCHANGED <<register_a, register_y, mode, call>>
                   [] op = OP_INX ->
                       /\ program_counter' = pc1
                       /\ inx
                       /\ UNCHANGED <<register_a, register_y, mode, call>>
                   [] op = OP_BRK ->
                       /\ program_counter' = pc1
                       /\ mode' = "halted"
                       /\ status' = IF slip = "brk_sets_break_flag"
                                    THEN BitOr(status, 16) ELSE status
                       /\ UNCHANGED <<register_a, register_x, register_y, call>>
                   [] OTHER ->
                       /\ program_counter' = pc1
                       /\ IF slip = "unknown_is_nop"
                          THEN UNCHANGED <<mode, call>>
                          ELSE Panic
                       /\ UNCHANGED <<register_a, register_x, register_y, status>>
  /\ UNCHANGED <<memory, loads, runs>>

Step_brk_sets_break_flag == StepWith("brk_sets_break_flag")
Step_unknown_is_nop      == StepWith("unknown_is_nop")
Step_lda_one_byte        == StepWith("lda_one_byte")
Step_tax_writes_y        == StepWith("tax_writes_y")

\* One iteration of the loop of run().  program_counter += 1 is reached only
\* after mem_read(program_counter) passed the index check, so the counter is
\* at most 0xFFFE there and the u16 addition cannot overflow.
Step ==
  /\ mode = "running"
  /\ IF ~InBounds(program_counter)
     THEN /\ Panic
          /\ UNCHANGED <<regs, opscode>>
     ELSE LET op  == mem_read(memory, program_counter)
              pc1 == program_counter + 1
          IN  /\ opscode' = op
              /\ CASE op = OP_LDA ->
                       IF ~InBounds(pc1)
                       THEN /\ program_counter' = pc1
                            /\ Panic
                            /\ UNCHANGED <<register_a, register_x, register_y, status>>
                       ELSE /\ program_counter' = pc1 + 1
                            /\ lda(mem_read(memory, pc1))
                            /\ UNCHANGED <<register_x, register_y, mode, call>>
                   [] op = OP_TAX ->
                       /\ program_counter' = pc1
                       /\ tax
                       /\ UNCHANGED <<register_a, register_y, mode, call>>
                   [] op = OP_INX ->
                       /\ program_counter' = pc1
                       /\ inx
                       /\ UNCHANGED <<register_a, register_y, mode, call>>
                   [] op = OP_BRK ->
                       /\ program_counter' = pc1
                       /\ mode' = "halted"
                       /\ UNCHANGED <<register_a, register_x, register_y, status, call>>
                   [] OTHER ->
                       /\ program_counter' = pc1
                       /\ Panic
                       /\ UNCHANGED <<register_a, register_x, register_y, status>>
  /\ UNCHANGED <<memory, loads, runs>>

\* run() as a function: how the loop entered with memory m, program counter
\* pc, registers a, x and status s ends.  It terminates because pc grows with
\* every iteration and a fetch at pc >= MemLen panics.
RECURSIVE run(_, _, _, _, _)
run(m, pc, a, x, s) ==
  IF ~InBounds(pc)
  THEN [mode |-> "fatal", a |-> a, x |-> x, s |-> s, pc |-> pc]
  ELSE LET op == mem_read(m, pc)
       IN  CASE op = OP_LDA ->
                  IF ~InBounds(pc + 1)
                  THEN [mode |-> "fatal", a |-> a, x |-> x, s |-> s, pc |-> pc + 1]
                  ELSE LET value == mem_read(m, pc + 1)
                       IN  run(m, pc + 2, value, x,
                               update_zero_and_negative(s, value))
             [] op = OP_TAX ->
                  run(m, pc + 1, a, a, update_zero_and_negative(s, a))
             [] op = OP_INX ->
                  run(m, pc + 1, a, wrapping_add_u8(x, 1),
                      update_zero_and_negative(s, wrapping_add_u8(x, 1)))
             [] op = OP_BRK ->
                  [mode |-> "halted", a |-> a, x |-> x, s |-> s, pc |-> pc + 1]
             [] OTHER ->
                  [mode |-> "fatal", a |-> a, x |-> x, s |-> s, pc |-> pc + 1]

(***************************************************************************)
(* CPU::load_and_run: load, reset, then the loop of run() (Step)           *)
(***************************************************************************)
\* a load_and_run that goes from load straight to run, without reset
LoadAndRun_without_reset(program) ==
  /\ Ready
  /\ loads < MaxLoads
  /\ runs < MaxRuns
  /\ loads' = loads + 1
  /\ runs' = runs + 1
  /\ memory' = load(memory, program)
  /\ opscode' = NoOpcode
  /\ mode' = IF load_ok(program) THEN "running" ELSE "fatal"
  /\ call' = Call("load_and_run", program.len, program, 0, ~load_ok(program))
  /\ UNCHANGED regs

LoadAndRun(program) ==
  /\ Ready
  /\ loads < MaxLoads
  /\ runs < MaxRuns
  /\ loads' = loads + 1
  /\ runs' = runs + 1
  /\ memory' = load(memory, program)
  /\ opscode' = NoOpcode
  /\ IF ~load_ok(program)
     THEN /\ mode' = "fatal"
          /\ call' = Call("load_and_run", program.len, program, 0, TRUE)
          /\ UNCHANGED regs
     ELSE /\ reset(load(memory, program))
          /\ mode' = IF mem_read_u16_ok(ResetVector) THEN "running" ELSE "fatal"
          /\ call' = Call("load_and_run", program.len, program, 0,
                          ~mem_read_u16_ok(ResetVector))

Next ==
  \/ \E r \in Setups : SetRegisters(r)
  \/ \E p \in Programs : Load(p)
  \/ Reset
  \/ Run
  \/ Step
  \/ \E p \in Programs : LoadAndRun(p)

Spec == Init /\ [][Next]_vars

\* run() is a loop that nothing suspends: while it is inside the loop the
\* next iteration is eventually executed.  Every iteration changes mode or
\* program_counter.
SpecFair == Spec /\ WF_<<mode, program_counter>>(mode = "running" /\ Step)

(***************************************************************************)
(* The private helpers, each applied once to inputs drawn from small sets  *)
(***************************************************************************)
ProbeAddresses == {0, 255, ProgramBase, ResetVector, ResetVector + 1, MemLen - 1, U16Max}
ProbeData == {0, 1, 128, 255}

\* memories that load produces
UnitMemories ==
  { EmptyMemory,
    load(EmptyMemory, Vec(<<169, 255, 170, 232, 232, 0>>)),
    load(EmptyMemory, Fill(MemLen - ProgramBase)) }

InitUnit ==
  /\ register_a = 0
  /\ register_x = 0
  /\ register_y = 0
  /\ program_counter = 0
  /\ \/ status \in Byte /\ memory = EmptyMemory
     \/ status = 0 /\ memory \in UnitMemories
  /\ mode = "idle"
  /\ opscode = NoOpcode
  /\ call = Call("none", 0, 0, 0, FALSE)
  /\ loads = 0
  /\ runs = 0

\* update_zero_and_negative(result) on the current status
UpdateFlagsCall(result) ==
  /\ call.fn = "none"
  /\ status' = update_zero_and_negative(status, result)
  /\ call' = Call("update_zero_and_negative", result, status,
                  update_zero_and_negative(status, result), FALSE)
  /\ UNCHANGED <<register_a, register_x, register_y, program_counter,
                 memory, mode, opscode, loads, runs>>

\* mem_read(address)
MemReadCall(address) ==
  /\ call.fn = "none"
  /\ IF InBounds(address)
     THEN /\ call' = Call("mem_read", address, 0, mem_read(memory, address), FALSE)
          /\ mode' = mode
     ELSE /\ call' = Call("mem_read", address, 0, 0, TRUE)
          /\ mode' = "fatal"
  /\ UNCHANGED <<regs, memory, opscode, loads, runs>>

\* mem_write(address, data)
MemWriteCall(address, data) ==
  /\ call.fn = "none"
  /\ IF InBounds(address)
     THEN /\ memory' = mem_write(memory, address, data)
          /\ call' = Call("mem_write", address, data, 0, FALSE)
          /\ mode' = mode
     ELSE /\ memory' = memory
          /\ call' = Call("mem_write", address, data, 0, TRUE)
          /\ mode' = "fatal"
  /\ UNCHANGED <<regs, opscode, loads, runs>>

NextUnit ==
  \/ \E r \in Byte : UpdateFlagsCall(r)
  \/ \E a \in ProbeAddresses : MemReadCall(a)
  \/ \E a \in ProbeAddresses, d \in ProbeData : MemWriteCall(a, d)

SpecUnit == InitUnit /\ [][NextUnit]_vars

(***************************************************************************)
(* Operand addressing and the 16-bit accessors, each applied once to a     *)
(* machine whose registers, operand bytes and zero page are drawn from     *)
(* small sets                                                              *)
(***************************************************************************)
wrapping_add_u16(x, y) == (x + y) % (U16Max + 1)

AddressingModes ==
  { "Immediate", "ZeroPage", "ZeroPage_X", "ZeroPage_Y", "Absolute",
    "Absolute_X", "Absolute_Y", "Indirect_X", "Indirect_Y", "NoneAddressing" }

\* the reads a mode makes of its operand succeed
get_operand_address_ok(pc, addressing) ==
  CASE addressing = "Immediate"      -> TRUE
    [] addressing = "NoneAddressing" -> FALSE
    [] addressing \in {"Absolute", "Absolute_X", "Absolute_Y"} -> mem_read_u16_ok(pc)
    [] OTHER                         -> InBounds(pc)

\* ZeroPage_X with the index added in 16 bits
zero_page_x_unwrapped(m, pc, x) == mem_read(m, pc) + x

zero_page_x(m, pc, x) ==
  LET pos == mem_read(m, pc)
  IN  wrapping_add_u8(pos, x)

zero_page_y(m, pc, y) ==
  LET pos == mem_read(m, pc)
  IN  wrapping_add_u8(pos, y)

absolute_x(m, pc, x) == wrapping_add_u16(mem_read_u16(m, pc), x)

absolute_y(m, pc, y) == wrapping_add_u16(mem_read_u16(m, pc), y)

indirect_x(m, pc, x) ==
  LET zero_page == mem_read(m, pc)
      address   == wrapping_add_u8(zero_page, x)
      lo        == mem_read(m, address)
      hi        == mem_read(m, wrapping_add_u16(address, 1))
  IN  hi * 256 + lo

indirect_y(m, pc, y) ==
  LET base       == mem_read(m, pc)
      lo         == mem_read(m, base)
      hi         == mem_read(m, wrapping_add_u8(base, 1))
      deref_base == hi * 256 + lo
  IN  wrapping_add_u16(deref_base, y)

get_operand_address(m, pc, x, y, addressing) ==
  CASE addressing = "Immediate"  -> pc
    [] addressing = "ZeroPage"   -> mem_read(m, pc)
    [] addressing = "Absolute"   -> mem_read_u16(m, pc)
    [] addressing = "ZeroPage_X" -> zero_page_x(m, pc, x)
    [] addressing = "ZeroPage_Y" -> zero_page_y(m, pc, y)
    [] addressing = "Absolute_X" -> absolute_x(m, pc, x)
    [] addressing = "Absolute_Y" -> absolute_y(m, pc, y)
    [] addressing = "Indirect_X" -> indirect_x(m, pc, x)
    [] addressing = "Indirect_Y" -> indirect_y(m, pc, y)

ProbeCounters == {512, MemLen - 1}
ProbeIndex    == {0, 1, 2, 127, 128, 255}
ProbeOperands == { hi * 256 + lo : lo \in {0, 1, 127, 128, 254, 255}, hi \in {0, 128, 255} }
ProbeWords    == {0, 1, 255, 256, 4660, 32768, 65280, 65535}
ProbePositions == {0, 255, ResetVector, MemLen - 2, MemLen - 1, U16Max}

\* zero pages holding pointers, with different bytes at 0x0000 and 0x0100
ZeroPages ==
  { EmptyMemory,
    [a \in {0, 1, 2, 127, 128, 129, 254, 255, 256, 257} |-> (a % 100) + 16] }

\* the operand word stored at pc, as far as it fits
WithOperand(m, pc, w) ==
  IF mem_write_u16_ok(pc) THEN mem_write_u16(m, pc, w) ELSE mem_write(m, pc, w % 256)

InitAddressing ==
  /\ register_a = 0
  /\ register_x \in ProbeIndex
  /\ register_y \in ProbeIndex
  /\ status = 0
  /\ program_counter \in ProbeCounters
  /\ \E z \in ZeroPages, w \in ProbeOperands :
        memory = WithOperand(z, program_counter, w)
  /\ mode = "idle"
  /\ opscode = NoOpcode
  /\ call = Call("none", 0, 0, 0, FALSE)
  /\ loads = 0
  /\ runs = 0

\* get_operand_address(&addressing)
GetOperandAddressCall(addressing) ==
  /\ call.fn = "none"
  /\ IF get_operand_address_ok(program_counter, addressing)
     THEN /\ call' = Call("get_operand_address", addressing, 0,
                          get_operand_address(memory, program_counter,
                                              register_x, register_y, addressing),
                          FALSE)
          /\ mode' = mode
     ELSE /\ call' = Call("get_operand_address", addressing, 0, 0, TRUE)
          /\ mode' = "fatal"
  /\ UNCHANGED <<regs, memory, opscode, loads, runs>>

\* mem_read_u16(pos), first or after a mem_write_u16 that returned
MemReadU16Call(pos) ==
  /\ \/ call.fn = "none"
     \/ call.fn = "mem_write_u16" /\ ~call.panicked
  /\ IF mem_read_u16_ok(pos)
     THEN /\ call' = Call("mem_read_u16", pos, 0, mem_read_u16(memory, pos), FALSE)
          /\ mode' = mode
     ELSE /\ call' = Call("mem_read_u16", pos, 0, 0, TRUE)
          /\ mode' = "fatal"
  /\ UNCHANGED <<regs, memory, opscode, loads, runs>>

\* mem_write_u16(pos, data): the low byte is stored before the high byte
MemWriteU16Call(pos, data) ==
  /\ call.fn = "none"
  /\ call' = Call("mem_write_u16", pos, data, 0, ~mem_write_u16_ok(pos))
  /\ mode' = IF mem_write_u16_ok(pos) THEN mode ELSE "fatal"
  /\ memory' = IF mem_write_u16_ok(pos) THEN mem_write_u16(memory, pos, data)
               ELSE IF InBounds(pos) THEN mem_write(memory, pos, data % 256)
               ELSE memory
  /\ UNCHANGED <<regs, opscode, loads, runs>>

NextAddressing ==
  \/ \E addressing \in AddressingModes : GetOperandAddressCall(addressing)
  \/ \E pos \in ProbePositions : MemReadU16Call(pos)
  \/ \E pos \in ProbePositions, data \in ProbeWords : MemWriteU16Call(pos, data)

SpecAddressing == InitAddressing /\ [][NextAddressing]_vars

TypeOK ==
  /\ register_a \in Byte /\ register_x \in Byte /\ register_y \in Byte
  /\ status \in Byte
  /\ program_counter \in 0..U16Max
  /\ DOMAIN memory \subseteq 0..(MemLen - 1)
  /\ \A a \in DOMAIN memory : memory[a] \in 1..255
  /\ mode \in {"idle", "running", "halted", "fatal"}
  /\ opscode \in 0..NoOpcode

(***************************************************************************)
(* Properties                                                              *)
(***************************************************************************)
Zero(s)     == Bit(s, 1) = 1
Negative(s) == Bit(s, 7) = 1
OtherBits   == {0, 2, 3, 4, 5, 6}       \* mask 0b0111_1101

\* the next iteration of run() fetches the byte op as its opcode
Fetches(op) ==
  /\ mode = "running"
  /\ InBounds(program_counter)
  /\ mem_read(memory, program_counter) = op

\* C1: LDA immediate (0xA9, v) from any machine state leaves register_a = v,
\* Zero set iff v = 0 and Negative set iff bit 7 of v is set.
C1_LdaImmediate ==
  [][ (Fetches(OP_LDA) /\ InBounds(program_counter + 1)) =>
        LET v == mem_read(memory, program_counter + 1)
        IN  /\ register_a' = v
            /\ Zero(status') <=> v = 0
            /\ Negative(status') <=> Bit(v, 7) = 1 ]_vars

\* LDA #$80 has run: the accumulator holds 0x80, Negative is set, Zero clear
C1_Witness ==
  /\ mode = "running"
  /\ opscode = OP_LDA
  /\ register_a = 128
  /\ Negative(status) /\ ~Zero(status)
  /\ mem_read(memory, program_counter - 1) = 128

\* C2: TAX leaves register_x = a and register_a = a, and sets Zero iff a = 0
\* and Negative iff bit 7 of a is set, whatever X held before.
C2_Tax ==
  [][ Fetches(OP_TAX) =>
        /\ register_x' = register_a
        /\ register_a' = register_a
        /\ Zero(status') <=> register_a = 0
        /\ Negative(status') <=> Bit(register_a, 7) = 1 ]_vars

\* TAX has run with a = 0x80 on a status of 0x7D (so X held 0x7F before)
C2_Witness ==
  /\ mode = "running"
  /\ opscode = OP_TAX
  /\ register_a = 128
  /\ register_x = 128
  /\ status = 253

\* C3: INX leaves register_x = (x + 1) mod 256 with Zero and Negative taken
\* from the new value; 0xFF becomes 0x00 (Zero set, Negative clear), 0x7F
\* becomes 0x80 (Negative set, Zero clear), and the program of
\* test_inx_overflow (two INX from 0xFF) ends with X = 0x01.
C3_Inx ==
  /\ [][ Fetches(OP_INX) =>
           /\ register_x' = (register_x + 1) % 256
           /\ Zero(status') <=> register_x' = 0
           /\ Negative(status') <=> Bit(register_x', 7) = 1
           /\ register_x = 255 =>
                register_x' = 0 /\ Zero(status') /\ ~Negative(status')
           /\ register_x = 127 =>
                register_x' = 128 /\ Negative(status') /\ ~Zero(status') ]_vars
  /\ []( ( /\ call.fn = "load_and_run"
           /\ mode = "halted"
           /\ call.data = Vec(<<169, 255, 170, 232, 232, 0>>) )
         => register_x = 1 )

\* INX has wrapped X from 0xFF to 0x00
C3_Witness ==
  /\ mode = "running"
  /\ opscode = OP_INX
  /\ register_x = 0
  /\ Zero(status) /\ ~Negative(status)
  /\ call.fn = "load_and_run"
  /\ call.data = Vec(<<169, 255, 170, 232, 232, 0>>)

\* C4: update_zero_and_negative on a result r and a prior status s gives a
\* status with bit 1 set iff r = 0, bit 7 equal to bit 7 of r, and the other
\* six bits equal to those of s.
C4_FlagUpdate ==
  call.fn = "update_zero_and_negative" =>
    LET r == call.arg
        s == call.data
    IN  /\ status = call.result
        /\ Zero(status) <=> r = 0
        /\ Bit(status, 7) = Bit(r, 7)
        /\ \A k \in OtherBits : Bit(status, k) = Bit(s, k)

\* the routine has cleared Zero and set Negative in a status of 0x7F
C4_Witness ==
  /\ call.fn = "update_zero_and_negative"
  /\ call.arg = 128
  /\ call.data = 127
  /\ status = 253

\* C5: mem_read and mem_write never fail, for every address 0x0000..0xFFFF:
\* the read returns a byte and the write stores its value.
C5_MemoryAccessNeverFails ==
  /\ call.fn = "mem_read" => ~call.panicked /\ call.result \in Byte
  /\ call.fn = "mem_write" =>
       ~call.panicked /\ mem_read(memory, call.arg) = call.data

\* C6: load(program) completes iff 0x8000 + len(program) <= 0x10000.
C6_LoadFitsIn64K ==
  call.fn = "load" =>
    (call.panicked <=> ProgramBase + call.arg > U16Max + 1)

\* a load call that returned
LoadReturned == loads' = loads + 1 /\ call'.fn = "load" /\ ~call'.panicked
\* a load call that panicked
LoadPanicked == loads' = loads + 1 /\ call'.fn = "load" /\ call'.panicked

InProgram(a, program) == a >= ProgramBase /\ a < ProgramBase + program.len
VectorCells == {ResetVector, ResetVector + 1}
\* the cells that are not 0 before or after the step
Touched == DOMAIN memory \cup DOMAIN memory'

\* C7 as stated: after a successful load every program byte is in place, the
\* reset vector reads 0x8000, and every other cell and register is unchanged.
C7_LoadAllBytesInPlace ==
  [][ LoadReturned =>
        LET program == call'.data
        IN  /\ \A a \in Touched \cup {ProgramBase + i : i \in DOMAIN program.bytes} :
                 InProgram(a, program) =>
                   mem_read(memory', a) = at(program, a - ProgramBase)
            /\ mem_read(memory', ResetVector) = 0
            /\ mem_read(memory', ResetVector + 1) = 128
            /\ \A a \in Touched :
                 (~InProgram(a, program) /\ a \notin VectorCells) =>
                   mem_read(memory', a) = mem_read(memory, a)
            /\ regs' = regs ]_vars

\* C7, amended: after a successful load every program byte that does not lie
\* on the reset vector (0xFFFC, 0xFFFD) is in place, the reset vector reads
\* 0x8000, and every other cell and register is unchanged.
C7_LoadBytesOffVectorInPlace ==
  [][ LoadReturned =>
        LET program == call'.data
        IN  /\ \A a \in Touched \cup {ProgramBase + i : i \in DOMAIN program.bytes} :
                 (InProgram(a, program) /\ a \notin VectorCells) =>
                   mem_read(memory', a) = at(program, a - ProgramBase)
            /\ mem_read(memory', ResetVector) = 0
            /\ mem_read(memory', ResetVector + 1) = 128
            /\ \A a \in Touched :
                 (~InProgram(a, program) /\ a \notin VectorCells) =>
                   mem_read(memory', a) = mem_read(memory, a)
            /\ regs' = regs ]_vars

\* a second load put a 3-byte program over a longer one, whose tail is kept
C7_Witness ==
  /\ call.fn = "load" /\ ~call.panicked
  /\ loads = 2
  /\ call.data = Vec(<<170, 232, 0>>)
  /\ mem_read(memory, ProgramBase) = OP_TAX
  /\ mem_read(memory, ProgramBase + 3) = OP_INX
  /\ mem_read_u16(memory, ResetVector) = ProgramBase

\* C8: a load that fails changes no memory cell and no register.
C8_FailedLoadChangesNothing ==
  [][ LoadPanicked => memory' = memory /\ regs' = regs ]_vars

\* a 0x8000-byte load has panicked on a machine that holds an earlier program
C8_Witness ==
  /\ call.fn = "load" /\ call.panicked
  /\ call.arg = 32768
  /\ mode = "fatal"
  /\ loads = 2
  /\ mem_read(memory, ProgramBase) = OP_LDA
  /\ mem_read_u16(memory, ResetVector) = ProgramBase

C10_ResetIdempotent ==
  [][ (call.fn = "reset" /\ call'.fn = "reset") =>
        (regs' = regs /\ memory' = memory) ]_vars

\* reset() has been called twice in succession after a load
C10_Witness ==
  /\ call.fn = "reset"
  /\ call.arg = 2
  /\ loads >= 1
  /\ register_y = 85
  /\ program_counter = ProgramBase

\* a load_and_run call has ended, by a halt or by a panic
LoadAndRunEnded == call.fn = "load_and_run" /\ mode \in {"halted", "fatal"}

\* how the machine ends that holds the registers a, x, s, pc and the memory m
Ends(m, a, x, s, pc, how) ==
  /\ mode = how
  /\ register_a = a /\ register_x = x /\ status = s /\ program_counter = pc

\* how load_and_run(program) ends on a machine whose A, X, status and program
\* counter are 0 before the call and whose memory is m after it (load changes
\* no memory when it fails, and run never writes memory)
EndsAsFromZero(m, program) ==
  IF load_ok(program)
  THEN LET r == run(m, mem_read_u16(m, ResetVector), 0, 0, 0)
       IN  Ends(m, r.a, r.x, r.s, r.pc, r.mode)
  ELSE Ends(m, 0, 0, 0, 0, "fatal")

\* C11 as stated, the second machine being the one whose A, X, status and
\* program counter are 0 before the call: load_and_run(p) ends with the same
\* outcome and the same A, X, status and program counter on both.  Stated
\* for the programs that do not end exactly at 0x10000, so that the missing
\* memory cell 0xFFFF plays no part in a violation.
C11_LoadAndRunIgnoresRegisters ==
  (LoadAndRunEnded /\ ProgramBase + call.arg # U16Max + 1) =>
    EndsAsFromZero(memory, call.data)

\* C11, amended: when load(p) succeeds, load_and_run(p) ends with the same
\* outcome and the same A, X, status and program counter whatever A, X,
\* status and program counter held before the call; when load(p) fails it
\* ends in the fatal failure of load.
C11_LoadAndRunIgnoresRegistersIfLoaded ==
  LoadAndRunEnded =>
    IF load_ok(call.data)
    THEN EndsAsFromZero(memory, call.data)
    ELSE mode = "fatal" /\ call.panicked

\* load_and_run of the program of test_0xe8_inx_increment has halted on a
\* machine whose registers the caller had set (Y = 0x55 comes with A = X =
\* status = 0xFF)
C11_Witness ==
  /\ LoadAndRunEnded
  /\ mode = "halted"
  /\ call.data = Vec(<<169, 127, 170, 232, 0>>)
  /\ register_y = 85
  /\ register_x = 128
  /\ status = 128

\* C12: run() returns only when the byte fetched as an opcode is 0x00, and
\* that BRK changes no register, flag or memory cell; a 0x00 byte that is
\* the operand of LDA is not decoded as an opcode and does not end the loop.
C12_HaltOnlyOnBrk ==
  /\ [][ (mode = "running" /\ mode' = "halted") =>
           /\ Fetches(OP_BRK)
           /\ opscode' = OP_BRK
           /\ register_a' = register_a /\ register_x' = register_x
           /\ register_y' = register_y /\ status' = status
           /\ memory' = memory ]_vars
  /\ [][ ( /\ Fetches(OP_LDA)
           /\ InBounds(program_counter + 1)
           /\ mem_read(memory, program_counter + 1) = 0 )
         => (mode' = "running" /\ program_counter' = program_counter + 2) ]_vars
  /\ [](mode = "halted" => opscode = OP_BRK)

\* the program LDA #$00, BRK has halted at its third byte, not at the operand
C12_Witness ==
  /\ LoadAndRunEnded
  /\ mode = "halted"
  /\ call.data = Vec(<<169, 0, 0>>)
  /\ opscode = OP_BRK
  /\ program_counter = ProgramBase + 3
  /\ register_a = 0
  /\ status = ZeroFlag

Implemented == {OP_LDA, OP_TAX, OP_INX, OP_BRK}

FetchesUnknown ==
  /\ mode = "running"
  /\ InBounds(program_counter)
  /\ mem_read(memory, program_counter) \notin Implemented

\* C13: when run() fetches as an opcode a byte other than 0xA9, 0xAA, 0xE8
\* and 0x00, the run ends at once in a fatal failure: the byte is not
\* skipped, no later opcode is fetched, and register_a, register_x,
\* register_y, status and memory keep the values they had at the fetch.
C13_UnknownOpcodeIsFatal ==
  /\ [][ FetchesUnknown =>
           /\ mode' = "fatal"
           /\ call'.panicked
           /\ opscode' = mem_read(memory, program_counter)
           /\ register_a' = register_a /\ register_x' = register_x
           /\ register_y' = register_y /\ status' = status
           /\ memory' = memory ]_vars
  /\ [][ mode = "fatal" => UNCHANGED vars ]_vars

\* LDA #$80 then the undefined byte 0x02: the failure keeps A and the flags
C13_Witness ==
  /\ LoadAndRunEnded
  /\ mode = "fatal"
  /\ call.data = Vec(<<169, 128, 2>>)
  /\ opscode = 2
  /\ program_counter = ProgramBase + 3
  /\ register_a = 128
  /\ status = NegativeFlag

Resolved(addressing) ==
  /\ call.fn = "get_operand_address"
  /\ call.arg = addressing
  /\ ~call.panicked

\* C14: for every operand byte b and X value i, ZeroPage_X resolves to
\* (b + i) mod 256, an address in 0x0000..0x00FF, and Absolute_X of the
\* 16-bit operand w resolves to (w + i) mod 65536.
C14_IndexedAddressesWrap ==
  LET b == mem_read(memory, program_counter)
      w == mem_read(memory, program_counter + 1) * 256 + b
      i == register_x
  IN  /\ Resolved("ZeroPage_X") =>
           /\ call.result = (b + i) % 256
           /\ call.result \in 0..255
      /\ Resolved("Absolute_X") => call.result = (w + i) % 65536

\* operand 0xFF indexed by X = 2 lands on zero-page address 0x01
C14_Witness ==
  /\ Resolved("ZeroPage_X")
  /\ mem_read(memory, program_counter) = 255
  /\ register_x = 2
  /\ call.result = 1

\* C15: the 16-bit accessors are little-endian and round-trip: for every
\* address a in 0x0000..0xFFFE and every 16-bit v, write16(a, v) stores
\* v mod 256 at a and v div 256 at a + 1 without failing, and a following
\* read16(a) returns v.
C15_WordAccessRoundTrips ==
  (call.fn = "mem_write_u16" /\ call.arg \in 0..(U16Max - 1)) =>
    /\ ~call.panicked
    /\ mem_read(memory, call.arg) = call.data % 256
    /\ mem_read(memory, call.arg + 1) = call.data \div 256
    /\ mem_read_u16_ok(call.arg)
    /\ mem_read_u16(memory, call.arg) = call.data

\* bytes an instruction occupies: 2 for LDA immediate, 1 for the others
Length(op) == IF op = OP_LDA THEN 2 ELSE 1

\* the addresses at which a run started at pc begins a loop iteration:
\* pc plus the summed lengths of the instructions executed so far
RECURSIVE OpcodeAddresses(_, _)
OpcodeAddresses(m, pc) ==
  IF ~InBounds(pc) THEN {pc}
  ELSE LET op == mem_read(m, pc)
       IN  IF op \in {OP_TAX, OP_INX} \/ (op = OP_LDA /\ InBounds(pc + 1))
           THEN {pc} \cup OpcodeAddresses(m, pc + Length(op))
           ELSE {pc}

LoadAndRunLoaded == call.fn = "load_and_run" /\ load_ok(call.data)

\* C16: at the start of every loop iteration of run() after load(p) and
\* reset(), program_counter is the address of an opcode byte, 0x8000 plus
\* the summed lengths of the instructions executed so far; when run() halts
\* it is the address of the decoded BRK plus one; it never leaves
\* 0x0000..0xFFFF.
C16_ProgramCounterTracksOpcodes ==
  /\ [](program_counter \in 0..U16Max)
  /\ []((LoadAndRunLoaded /\ mode = "running") =>
          program_counter \in OpcodeAddresses(memory, ProgramBase))
  /\ []((LoadAndRunLoaded /\ mode = "halted") =>
          /\ program_counter - 1 \in OpcodeAddresses(memory, ProgramBase)
          /\ mem_read(memory, program_counter - 1) = OP_BRK)
  /\ [][ (mode = "running" /\ mode' = "running") =>
           program_counter' =
             program_counter + Length(mem_read(memory, program_counter)) ]_vars
  /\ [][ (mode = "running" /\ mode' = "halted") =>
           /\ mem_read(memory, program_counter) = OP_BRK
           /\ program_counter' = program_counter + 1 ]_vars

\* LDA #$FF, TAX, INX, INX, BRK halts one past the BRK at 0x8005
C16_Witness ==
  /\ LoadAndRunLoaded
  /\ mode = "halted"
  /\ call.data = Vec(<<169, 255, 170, 232, 232, 0>>)
  /\ program_counter = ProgramBase + 6
  /\ register_x = 1

ResetStatuses == {0, ZeroFlag, NegativeFlag}

\* C17: in every state reachable by run() after reset(), status is one of
\* 0x00, 0x02 and 0x80.
C17_StatusAfterReset ==
  /\ []((LoadAndRunLoaded /\ mode \in {"running", "halted", "fatal"}) =>
          status \in ResetStatuses)
  /\ [][ (call.fn = "reset" /\ ~call.panicked /\ call'.fn = "run") =>
           status' \in ResetStatuses ]_vars
  /\ [][ (mode = "running" /\ status \in ResetStatuses) =>
           status' \in ResetStatuses ]_vars

\* TAX of 0xFF set Negative, the second INX wrapped X to 0: Zero alone
C17_Witness ==
  /\ LoadAndRunLoaded
  /\ call.data = Vec(<<169, 255, 170, 232, 232, 0>>)
  /\ mode = "running"
  /\ opscode = OP_INX
  /\ register_x = 0
  /\ status = ZeroFlag

RunEnded == mode \in {"halted", "fatal"}

\* C18: run() terminates from every memory contents and every starting
\* program_counter: program_counter strictly increases on every fetch and
\* never wraps past 0xFFFF to 0x0000, so the run always ends in a halt on
\* BRK or in a fatal failure.
C18_RunTerminates ==
  /\ [][ (mode = "running" /\ mode' = "running") =>
           program_counter' > program_counter ]_vars
  /\ [][ mode = "running" => program_counter' >= program_counter ]_vars
  /\ [](program_counter <= U16Max)
  /\ (mode = "running") ~> RunEnded

\* a run started at 0xFFFE ends at the top of the address space
C18_Witness ==
  /\ call.fn = "run"
  /\ mode = "fatal"
  /\ opscode = OP_LDA
  /\ program_counter = U16Max

\* the byte load(program) leaves at address a of the program's range: the
\* reset vector is stored after the program bytes
LoadedByte(program, a) ==
  IF a = ResetVector THEN ProgramBase % 256
  ELSE IF a = ResetVector + 1 THEN ProgramBase \div 256
  ELSE at(program, a - ProgramBase)

\* C19: run() never writes memory and never changes register_y; after
\* load_and_run(p) the program bytes and the reset vector are as load(p)
\* left them.
C19_RunFrame ==
  /\ [][ (mode = "running" \/ call'.fn = "run") =>
           (memory' = memory /\ register_y' = register_y) ]_vars
  /\ [][ (call'.fn = "load_and_run" /\ loads' = loads + 1) =>
           (memory' = load(memory, call'.data) /\ register_y' = register_y) ]_vars
  /\ [](LoadAndRunLoaded =>
          /\ mem_read_u16(memory, ResetVector) = ProgramBase
          /\ \A a \in DOMAIN memory \cup
                      {ProgramBase + i : i \in DOMAIN call.data.bytes} :
               InProgram(a, call.data) =>
                 mem_read(memory, a) = LoadedByte(call.data, a))

\* TAX, INX, BRK ran over an older, longer program: Y and the old tail are kept
C19_Witness ==
  /\ LoadAndRunLoaded
  /\ mode = "halted"
  /\ loads = 2
  /\ call.data = Vec(<<170, 232, 0>>)
  /\ register_y = 170
  /\ register_x = 1
  /\ mem_read(memory, ProgramBase) = OP_TAX
  /\ mem_read(memory, ProgramBase + 3) = OP_INX
  /\ mem_read_u16(memory, ResetVector) = ProgramBase

\* C20: Indirect_X with X = 0 and Indirect_Y with Y = 0 resolve every
\* operand byte p, 0xFF included, to the same effective address: low byte
\* memory[p], high byte the byte that follows p.
C20_IndirectPointersAgree ==
  (Resolved("Indirect_X") /\ register_x = 0 /\ register_y = 0) =>
    /\ call.result % 256 = mem_read(memory, mem_read(memory, program_counter))
    /\ call.result = get_operand_address(memory, program_counter,
                                         register_x, register_y, "Indirect_Y")

====
